---------------------------- MODULE Spec2Model ----------------------------
(***************************************************************************)
(* EMI payment predictor: the prediction engine (predictor.py) and the     *)
(* feature engineer (data_processor.py).                                   *)
(*                                                                         *)
(* Dates are proleptic Gregorian ordinals (datetime.toordinal) where the   *)
(* code holds a Timestamp and records [year, month, day] where the code    *)
(* reads the fields or formats '%Y-%m-%d'.  Confidence scores are in       *)
(* hundredths (70 is 0.70).  A standard deviation is kept as its square,   *)
(* the fraction sq_num / sq_den, so that the comparisons against 3 and 10  *)
(* are exact; NaN is the value pandas gives when fewer than two delays are *)
(* defined.                                                                *)
(***************************************************************************)
EXTENDS Integers, Sequences, FiniteSets, TLC

VARIABLES
    data,           \* the payment-history CSV at DATA_PATH
    artifact,       \* the model file at MODEL_PATH (None when absent)
    model,          \* EMIPaymentPredictor.model
    feature_names,  \* EMIPaymentPredictor.feature_names
    trains,         \* number of train_model calls so far
    ret,            \* what the last call returned or raised
    arg,            \* input of the pure-function specifications
    out,            \* output of the pure-function specifications
    pc,             \* position of each worker thread (concurrent specification)
    loc             \* locals of each worker thread (concurrent specification)

vars == <<data, artifact, model, feature_names, trains, ret, arg, out, pc, loc>>

\* An optional value is a sequence of length 0 or 1: None, NaN and NaT are the
\* empty one, Some(v) holds v.
None == <<>>
NaN == <<>>
NaT == <<>>
Some(v) == <<v>>

Min(a, b) == IF a < b THEN a ELSE b
Max(a, b) == IF a > b THEN a ELSE b
Abs(a) == IF a < 0 THEN 0 - a ELSE a

(***************************************************************************)
(* Bounds                                                                  *)
(***************************************************************************)
MaxYear == 2025
MaxPayments == 12
MaxVarNum == 201

(***************************************************************************)
(* Calendar: pd.Timestamp / datetime / calendar.monthrange                 *)
(***************************************************************************)
IsLeap(y) == (y % 4 = 0) /\ ((y % 100 # 0) \/ (y % 400 = 0))

\* number of days pd.Timestamp(year, month, day) accepts for the month
DaysInMonth(y, m) ==
    IF m = 2 THEN (IF IsLeap(y) THEN 29 ELSE 28)
    ELSE IF m \in {4, 6, 9, 11} THEN 30 ELSE 31

\* calendar.monthrange(year, month)[1] without the leap-year rule
monthrange_noleap(y, m) ==
    IF m = 2 THEN 28 ELSE IF m \in {4, 6, 9, 11} THEN 30 ELSE 31

\* calendar.monthrange(year, month)[1]
monthrange(y, m) ==
    IF m = 2 THEN (IF IsLeap(y) THEN 29 ELSE 28)
    ELSE IF m \in {4, 6, 9, 11} THEN 30 ELSE 31

\* pd.Timestamp(year=, month=, day=) raises ValueError for a day out of range
TimestampValid(y, m, d) == m \in 1..12 /\ d \in 1..DaysInMonth(y, m)

DaysBeforeYear(y) == 365 * (y - 1) + ((y - 1) \div 4) - ((y - 1) \div 100) + ((y - 1) \div 400)

RECURSIVE DaysBeforeMonth(_, _)
DaysBeforeMonth(y, m) == IF m = 1 THEN 0 ELSE DaysBeforeMonth(y, m - 1) + DaysInMonth(y, m - 1)

\* Timestamp of a calendar date
ToOrdinal(y, m, d) == DaysBeforeYear(y) + DaysBeforeMonth(y, m) + d

Date(y, m, d) == [year |-> y, month |-> m, day |-> d]

\* the .year / .month / .day fields of a Timestamp, also strftime('%Y-%m-%d')
FromOrdinal(n) ==
    LET y == CHOOSE yy \in ((n \div 366) + 1)..((n \div 365) + 1) :
                 DaysBeforeYear(yy) < n /\ n <= DaysBeforeYear(yy + 1)
        r == n - DaysBeforeYear(y)
        m == CHOOSE mm \in 1..12 :
                 DaysBeforeMonth(y, mm) < r /\ r <= DaysBeforeMonth(y, mm) + DaysInMonth(y, mm)
    IN Date(y, m, r - DaysBeforeMonth(y, m))

(***************************************************************************)
(* predict_next_payment_date, lines 169-186: the next demand date          *)
(***************************************************************************)
NextDemandDate(last_demand_date) ==
    LET day_of_month == last_demand_date.day
        next_year == IF last_demand_date.month = 12 THEN last_demand_date.year + 1
                     ELSE last_demand_date.year
        next_month == IF last_demand_date.month = 12 THEN 1
                      ELSE last_demand_date.month + 1
    IN IF TimestampValid(next_year, next_month, day_of_month)
       THEN Date(next_year, next_month, day_of_month)
       ELSE LET last_day == monthrange(next_year, next_month)
            IN Date(next_year, next_month, Min(day_of_month, last_day))

(***************************************************************************)
(* _calculate_confidence                                                   *)
(***************************************************************************)
\* std > k and std < k on a standard deviation kept as its square; both are
\* false on NaN, as float comparisons are
StdGT(s, k) == s # NaN /\ s[1].sq_num > k * k * s[1].sq_den
StdLT(s, k) == s # NaN /\ s[1].sq_num < k * k * s[1].sq_den

\* the score without the final clamp and with a volatility penalty of 0.30
calculate_confidence_unclamped(features) ==
    LET c0 == 70
        c1 == IF features.total_payments > 10 THEN c0 + 10
              ELSE IF features.total_payments > 5 THEN c0 + 5 ELSE c0
    IN IF StdGT(features.std_delay, 10) THEN c1 - 30
       ELSE IF StdLT(features.std_delay, 3) THEN c1 + 10 ELSE c1

\* the score with the thresholds taken as inclusive
calculate_confidence_inclusive(features) ==
    LET c0 == 70
        c1 == IF features.total_payments >= 10 THEN c0 + 10
              ELSE IF features.total_payments >= 5 THEN c0 + 5 ELSE c0
        c2 == IF ~StdLT(features.std_delay, 10) /\ features.std_delay # NaN THEN c1 - 10
              ELSE IF ~StdGT(features.std_delay, 3) /\ features.std_delay # NaN THEN c1 + 10
              ELSE c1
    IN Min(95, Max(50, c2))

\* the score with a bonus of 0.20 above 10 payments
calculate_confidence_wide(features) ==
    LET c0 == 70
        c1 == IF features.total_payments > 10 THEN c0 + 20
              ELSE IF features.total_payments > 5 THEN c0 + 5 ELSE c0
        c2 == IF StdGT(features.std_delay, 10) THEN c1 - 10
              ELSE IF StdLT(features.std_delay, 3) THEN c1 + 10 ELSE c1
    IN Min(95, Max(50, c2))

calculate_confidence(features) ==
    LET c0 == 70
        c1 == IF features.total_payments > 10 THEN c0 + 10
              ELSE IF features.total_payments > 5 THEN c0 + 5 ELSE c0
        c2 == IF StdGT(features.std_delay, 10) THEN c1 - 10
              ELSE IF StdLT(features.std_delay, 3) THEN c1 + 10 ELSE c1
    IN Min(95, Max(50, c2))

(***************************************************************************)
(* The payment-history source                                              *)
(*                                                                         *)
(* A table is [columns, rows]; a row is [customer_id, payment_date,        *)
(* scheduled_date], the scheduled date NaT when the cell is empty or the   *)
(* column is absent; calculate_payment_delays adds delay_days.             *)
(***************************************************************************)
\* a minimum of two records, which is what engineer_features asks for
MIN_HISTORY_RECORDS_as_features == 3 - 1

MIN_HISTORY_RECORDS == 3
feature_windows == <<7, 14, 30, 60, 90>>

DATA_PATH == "data/emi_history.csv"
MissingPath == "data/no_such_file.csv"

RECURSIVE SumSeq(_)
SumSeq(s) == IF s = <<>> THEN 0 ELSE s[1] + SumSeq(Tail(s))

RECURSIVE SumSq(_)
SumSq(s) == IF s = <<>> THEN 0 ELSE s[1] * s[1] + SumSq(Tail(s))

Front(s) == SubSeq(s, 1, Len(s) - 1)
Last(s) == s[Len(s)]

\* DataFrame.sort_values('payment_date') on one more row: the row goes after
\* every row whose payment date is not later
InsertRow(sorted, r) ==
    LET k == Cardinality({i \in 1..Len(sorted) : sorted[i].payment_date <= r.payment_date})
    IN SubSeq(sorted, 1, k) \o <<r>> \o SubSeq(sorted, k + 1, Len(sorted))

RECURSIVE sort_values(_)
sort_values(rows) ==
    IF rows = <<>> THEN <<>> ELSE InsertRow(sort_values(Front(rows)), Last(rows))

\* pd.read_csv(file_path): the file behind a path, None when there is none
read_csv(file_path) == IF file_path = DATA_PATH THEN Some(data) ELSE None

\* what load_data raises on a file that exists: line 19 reads the column
\* payment_date; no other column is looked at
load_data_error(file) == IF "payment_date" \in file.columns THEN "" ELSE "KeyError"

\* EMIDataProcessor.load_data on a file that exists and has payment dates
load_data(file) == [columns |-> file.columns, rows |-> sort_values(file.rows)]

\* EMIDataProcessor.calculate_payment_delays
calculate_payment_delays(df) ==
    [columns |-> df.columns \cup {"delay_days"},
     rows |-> [i \in 1..Len(df.rows) |->
        LET r == df.rows[i]
            delay == IF "scheduled_date" \in df.columns
                     THEN (IF r.scheduled_date = NaT THEN NaN
                           ELSE Some(r.payment_date - r.scheduled_date[1]))
                     ELSE (IF i = 1 THEN Some(0)
                           ELSE Some(r.payment_date - df.rows[i - 1].payment_date))
        IN [customer_id |-> r.customer_id, payment_date |-> r.payment_date,
            scheduled_date |-> r.scheduled_date, delay_days |-> delay]]]

\* df[df['customer_id'] == customer_id]
CustomerRows(df, customer_id) == SelectSeq(df.rows, LAMBDA r : r.customer_id = customer_id)

\* the defined values of a delay column (pandas statistics skip NaN)
RECURSIVE DefinedDelays(_)
DefinedDelays(rows) ==
    IF rows = <<>> THEN <<>>
    ELSE (IF rows[1].delay_days = NaN THEN <<>> ELSE <<rows[1].delay_days[1]>>)
         \o DefinedDelays(Tail(rows))

\* Series.mean(): the fraction num / den, NaN without a defined value
Mean(rows) ==
    LET ds == DefinedDelays(rows)
    IN IF ds = <<>> THEN NaN ELSE Some([num |-> SumSeq(ds), den |-> Len(ds)])

\* Series.std(): the sample deviation (ddof = 1), as its square
Std(rows) ==
    LET ds == DefinedDelays(rows)
        n == Len(ds)
    IN IF n < 2 THEN NaN
       ELSE Some([sq_num |-> n * SumSq(ds) - SumSeq(ds) * SumSeq(ds), sq_den |-> n * (n - 1)])

MaxPaymentDate(rows) ==
    CHOOSE d \in {rows[i].payment_date : i \in 1..Len(rows)} :
        \A i \in 1..Len(rows) : rows[i].payment_date <= d

\* the rows of a window that leaves out the day `window` days before the
\* latest payment
WindowRows_exclusive(rows, window) ==
    SelectSeq(rows, LAMBDA r : r.payment_date > MaxPaymentDate(rows) - window)

\* the rows of a window that ends before the latest payment
WindowRows_before_latest(rows, window) ==
    SelectSeq(rows, LAMBDA r : /\ r.payment_date >= MaxPaymentDate(rows) - window
                               /\ r.payment_date < MaxPaymentDate(rows))

\* the rows of one rolling window, anchored at the customer's latest payment
WindowRows(rows, window) ==
    SelectSeq(rows, LAMBDA r : r.payment_date >= MaxPaymentDate(rows) - window)

\* engineer_features with the guard "if len(customer_df) < 1"
engineer_features_one_record(df, customer_id, clock) ==
    LET customer_df == CustomerRows(df, customer_id)
    IN IF Len(customer_df) < 1 THEN None
       ELSE LET last_payment == Last(customer_df)
            IN Some([total_payments |-> Len(customer_df),
                     avg_delay |-> Mean(customer_df),
                     std_delay |-> Std(customer_df),
                     payment_count |-> [w \in 1..Len(feature_windows) |->
                         Len(WindowRows(customer_df, feature_windows[w]))],
                     delay_mean |-> [w \in 1..Len(feature_windows) |->
                         LET window_df == WindowRows(customer_df, feature_windows[w])
                         IN IF Len(window_df) > 0 THEN Mean(window_df)
                            ELSE Some([num |-> 0, den |-> 1])],
                     last_payment_date |-> last_payment.payment_date,
                     last_delay |-> last_payment.delay_days,
                     days_since_last_payment |-> clock - last_payment.payment_date])

\* EMIDataProcessor.engineer_features; clock is datetime.now().  The interval,
\* trend and mode features are not kept: nothing below reads them.
engineer_features(df, customer_id, clock) ==
    LET customer_df == CustomerRows(df, customer_id)
    IN IF Len(customer_df) < 2 THEN None
       ELSE LET last_payment == Last(customer_df)
            IN Some([total_payments |-> Len(customer_df),
                     avg_delay |-> Mean(customer_df),
                     std_delay |-> Std(customer_df),
                     payment_count |-> [w \in 1..Len(feature_windows) |->
                         Len(WindowRows(customer_df, feature_windows[w]))],
                     delay_mean |-> [w \in 1..Len(feature_windows) |->
                         LET window_df == WindowRows(customer_df, feature_windows[w])
                         IN IF Len(window_df) > 0 THEN Mean(window_df)
                            ELSE Some([num |-> 0, den |-> 1])],
                     last_payment_date |-> last_payment.payment_date,
                     last_delay |-> last_payment.delay_days,
                     days_since_last_payment |-> clock - last_payment.payment_date])

\* the numeric columns of a feature frame, in the order engineer_features
\* fills them (last_payment_date is a date and is dropped)
FeatureColumns ==
    <<"total_payments", "avg_delay", "std_delay", "max_delay", "min_delay",
      "recent_avg_delay", "recent_trend", "avg_interval", "interval_std",
      "preferred_day", "preferred_month",
      "delay_mean_7d", "payment_count_7d", "delay_mean_14d", "payment_count_14d",
      "delay_mean_30d", "payment_count_30d", "delay_mean_60d", "payment_count_60d",
      "delay_mean_90d", "payment_count_90d", "last_delay", "days_since_last_payment">>

\* df['customer_id'].unique(): the ids in order of first appearance
RECURSIVE Unique(_)
Unique(rows) ==
    IF rows = <<>> THEN <<>>
    ELSE LET u == Unique(Front(rows))
         IN IF \E i \in 1..Len(u) : u[i] = Last(rows).customer_id THEN u
            ELSE Append(u, Last(rows).customer_id)

\* the examples of one customer, for i in range(from, len(customer_df)): the
\* row appended to X_list with the target appended to y_list; customer_id is
\* not a column, it says whose history the example comes from
RECURSIVE CustomerExamples(_, _, _, _)
CustomerExamples(df, customer_id, i, clock) ==
    LET customer_df == CustomerRows(df, customer_id)
        n == Len(customer_df)
    IN IF i >= n THEN <<>>
       ELSE LET historical == SubSeq(customer_df, 1, i)
                target == customer_df[i + 1]
                features == engineer_features(
                    [columns |-> df.columns, rows |-> historical], customer_id, clock)
                days_until_next ==
                    IF i < n - 1
                    THEN customer_df[i + 2].payment_date - target.payment_date
                    ELSE target.payment_date - Last(historical).payment_date
            IN (IF features # None
                THEN <<[customer_id |-> customer_id, features |-> features[1],
                        target |-> days_until_next]>>
                ELSE <<>>)
               \o CustomerExamples(df, customer_id, i + 1, clock)

\* EMIDataProcessor.prepare_training_data: the examples, <<>> for (None, None)
RECURSIVE ExamplesOf(_, _, _)
ExamplesOf(df, ids, clock) ==
    IF ids = <<>> THEN <<>>
    ELSE (IF Len(CustomerRows(df, ids[1])) < 3 THEN <<>>
          ELSE CustomerExamples(df, ids[1], 2, clock))
         \o ExamplesOf(df, Tail(ids), clock)

prepare_training_data(df, clock) == ExamplesOf(df, Unique(df.rows), clock)

(***************************************************************************)
(* The prediction engine                                                   *)
(*                                                                         *)
(* An engine is [model, feature_names].  A regressor is [id, fitted, out]: *)
(* id names the train_model call that built it, out is what the fitted     *)
(* trees answer, in tenths of a day (the library is opaque: the answer is  *)
(* fixed when the model is fitted).  A feature-name list carries the id of *)
(* the training it comes from.  An outcome is the engine after the call    *)
(* with the error raised ("" for none) and the value returned.             *)
(***************************************************************************)
Engine(m, f) == [model |-> m, feature_names |-> f]

Raise(eng, e) ==
    [error |-> e, value |-> <<>>, model |-> eng.model, feature_names |-> eng.feature_names]

Return(eng, v) ==
    [error |-> "", value |-> v, model |-> eng.model, feature_names |-> eng.feature_names]

\* int(): truncation toward zero instead of round()
round_truncating(num, den) ==
    IF num >= 0 THEN num \div den ELSE 0 - ((0 - num) \div den)

\* Python's round(): to the nearest integer, a tie to the even one
round(num, den) ==
    LET q == num \div den
        r == num - q * den
    IN IF 2 * r < den THEN q
       ELSE IF 2 * r > den THEN q + 1
       ELSE IF q % 2 = 0 THEN q ELSE q + 1

\* joblib.dump of the dict {'model': ..., 'feature_names': ...}: the file holds
\* the items of the dict, in insertion order
joblib_dump(obj) == <<<<"model", obj.model>>, <<"feature_names", obj.feature_names>>>>

\* model_data[key] on the unpickled dict
GetItem(file, key) == file[CHOOSE i \in 1..Len(file) : file[i][1] = key][2]

\* joblib.load: the dict the file holds
joblib_load(file) ==
    [model |-> GetItem(file, "model"), feature_names |-> GetItem(file, "feature_names")]

\* load_model without line 117: the feature names of the file are not taken
load_model_model_only(eng, file) ==
    IF file = None THEN Raise(eng, "ModelNotFoundError")
    ELSE LET model_data == joblib_load(file[1])
         IN Return(Engine(Some(model_data.model), eng.feature_names), <<>>)

\* EMIPaymentPredictor.load_model, lines 112-117; file is the file at
\* path_to_use, None when there is none
load_model(eng, file) ==
    IF file = None THEN Raise(eng, "ModelNotFoundError")
    ELSE LET model_data == joblib_load(file[1])
         IN Return(Engine(Some(model_data.model), Some(model_data.feature_names)), <<>>)

(***************************************************************************)
(* load_model, lines 92-110: where the model file is looked for            *)
(*                                                                         *)
(* A path is the sequence of its components, "/" first when it is          *)
(* absolute; a file system is the set of the absolute paths that exist.    *)
(***************************************************************************)
MODEL_PATH == <<"models", "emi_predictor_model.pkl">>

\* os.path.dirname(os.path.abspath(__file__)) of predictor.py
script_dir == <<"/", "app", "src">>

isabs(path) == path # <<>> /\ path[1] = "/"
join(a, b) == IF isabs(b) THEN b ELSE a \o b
dirname(path) == SubSeq(path, 1, Len(path) - 1)
abspath(cwd, path) == join(cwd, path)
exists(fs, cwd, path) == abspath(cwd, path) \in fs

\* the candidates with the parent directory tried before the script directory
path_to_use_parent_first(model_path, cwd, fs) ==
    LET path_to_use == IF model_path = None \/ model_path = Some(<<>>) THEN MODEL_PATH
                       ELSE model_path[1]
        potential_path == join(script_dir, path_to_use)
        parent_path == join(dirname(script_dir), path_to_use)
    IN IF isabs(path_to_use) THEN path_to_use
       ELSE IF exists(fs, cwd, path_to_use) THEN abspath(cwd, path_to_use)
       ELSE IF exists(fs, cwd, parent_path) THEN parent_path
       ELSE IF exists(fs, cwd, potential_path) THEN potential_path
       ELSE path_to_use

\* path_to_use at line 112; model_path is None, or Some of a path, the empty
\* string being the empty path
path_to_use(model_path, cwd, fs) ==
    LET path_to_use == IF model_path = None \/ model_path = Some(<<>>) THEN MODEL_PATH
                       ELSE model_path[1]
        potential_path == join(script_dir, path_to_use)
        parent_path == join(dirname(script_dir), path_to_use)
    IN IF isabs(path_to_use) THEN path_to_use
       ELSE IF exists(fs, cwd, path_to_use) THEN abspath(cwd, path_to_use)
       ELSE IF exists(fs, cwd, potential_path) THEN potential_path
       ELSE IF exists(fs, cwd, parent_path) THEN parent_path
       ELSE path_to_use

\* the same with days_until_payment counted from the time of the call
PredictFrom_from_now(eng, df, customer_id, features) ==
    LET customer_df == CustomerRows(df, customer_id)
        payment_history == [i \in 1..Len(customer_df) |->
            [payment_date |-> customer_df[i].payment_date,
             delay_days |-> customer_df[i].delay_days]]
        average_delay == Mean(customer_df)
        last_demand_date ==
            IF "scheduled_date" \in df.columns /\ Len(customer_df) > 0
            THEN Last(customer_df).scheduled_date ELSE NaT
        next_demand_date ==
            IF last_demand_date # NaT
            THEN Some(NextDemandDate(FromOrdinal(last_demand_date[1]))) ELSE None
        last_payment_date == features.last_payment_date
        Result(predicted_date) ==
            [customer_id |-> customer_id,
             predicted_payment_date |-> FromOrdinal(predicted_date),
             days_until_payment |->
                 predicted_date - (last_payment_date + features.days_since_last_payment),
             last_payment_date |-> FromOrdinal(last_payment_date),
             last_demand_date |->
                 IF last_demand_date # NaT THEN Some(FromOrdinal(last_demand_date[1])) ELSE None,
             next_demand_date |-> next_demand_date,
             confidence_score |-> calculate_confidence(features),
             payment_history |->
                 SubSeq(payment_history, Max(1, Len(payment_history) - 4), Len(payment_history)),
             average_delay |-> average_delay,
             payment_count |-> Len(customer_df)]
    IN IF next_demand_date # None
       THEN LET delay_days == round(average_delay[1].num, average_delay[1].den)
                nd == next_demand_date[1]
            IN Return(eng, <<Result(ToOrdinal(nd.year, nd.month, nd.day) + delay_days)>>)
       ELSE IF ~eng.model[1].fitted THEN Raise(eng, "NotFittedError")
       ELSE LET days_until_payment == Max(0, round(eng.model[1].out, 10))
            IN Return(eng, <<Result(last_payment_date + days_until_payment)>>)

\* the same with the answer of the regressor rounded and not floored at 0
PredictFrom_unfloored(eng, df, customer_id, features) ==
    LET customer_df == CustomerRows(df, customer_id)
        payment_history == [i \in 1..Len(customer_df) |->
            [payment_date |-> customer_df[i].payment_date,
             delay_days |-> customer_df[i].delay_days]]
        average_delay == Mean(customer_df)
        last_demand_date ==
            IF "scheduled_date" \in df.columns /\ Len(customer_df) > 0
            THEN Last(customer_df).scheduled_date ELSE NaT
        next_demand_date ==
            IF last_demand_date # NaT
            THEN Some(NextDemandDate(FromOrdinal(last_demand_date[1]))) ELSE None
        last_payment_date == features.last_payment_date
        Result(predicted_date) ==
            [customer_id |-> customer_id,
             predicted_payment_date |-> FromOrdinal(predicted_date),
             days_until_payment |-> predicted_date - last_payment_date,
             last_payment_date |-> FromOrdinal(last_payment_date),
             last_demand_date |->
                 IF last_demand_date # NaT THEN Some(FromOrdinal(last_demand_date[1])) ELSE None,
             next_demand_date |-> next_demand_date,
             confidence_score |-> calculate_confidence(features),
             payment_history |->
                 SubSeq(payment_history, Max(1, Len(payment_history) - 4), Len(payment_history)),
             average_delay |-> average_delay,
             payment_count |-> Len(customer_df)]
    IN IF next_demand_date # None
       THEN LET delay_days == round(average_delay[1].num, average_delay[1].den)
                nd == next_demand_date[1]
            IN Return(eng, <<Result(ToOrdinal(nd.year, nd.month, nd.day) + delay_days)>>)
       ELSE IF ~eng.model[1].fitted THEN Raise(eng, "NotFittedError")
       ELSE LET days_until_payment == round(eng.model[1].out, 10)
            IN Return(eng, <<Result(last_payment_date + days_until_payment)>>)

\* predict_next_payment_date from line 147 on: the customer has enough
\* records and a feature vector
PredictFrom(eng, df, customer_id, features) ==
    LET customer_df == CustomerRows(df, customer_id)
        payment_history == [i \in 1..Len(customer_df) |->
            [payment_date |-> customer_df[i].payment_date,
             delay_days |-> customer_df[i].delay_days]]
        average_delay == Mean(customer_df)
        last_demand_date ==
            IF "scheduled_date" \in df.columns /\ Len(customer_df) > 0
            THEN Last(customer_df).scheduled_date ELSE NaT
        next_demand_date ==
            IF last_demand_date # NaT
            THEN Some(NextDemandDate(FromOrdinal(last_demand_date[1]))) ELSE None
        last_payment_date == features.last_payment_date
        Result(predicted_date) ==
            [customer_id |-> customer_id,
             predicted_payment_date |-> FromOrdinal(predicted_date),
             days_until_payment |-> predicted_date - last_payment_date,
             last_payment_date |-> FromOrdinal(last_payment_date),
             last_demand_date |->
                 IF last_demand_date # NaT THEN Some(FromOrdinal(last_demand_date[1])) ELSE None,
             next_demand_date |-> next_demand_date,
             confidence_score |-> calculate_confidence(features),
             payment_history |->
                 SubSeq(payment_history, Max(1, Len(payment_history) - 4), Len(payment_history)),
             average_delay |-> average_delay,
             payment_count |-> Len(customer_df)]
    IN IF next_demand_date # None
       THEN LET delay_days == round(average_delay[1].num, average_delay[1].den)
                nd == next_demand_date[1]
            IN Return(eng, <<Result(ToOrdinal(nd.year, nd.month, nd.day) + delay_days)>>)
       ELSE IF ~eng.model[1].fitted THEN Raise(eng, "NotFittedError")
       ELSE LET days_until_payment == Max(0, round(eng.model[1].out, 10))
            IN Return(eng, <<Result(last_payment_date + days_until_payment)>>)

\* predict_next_payment_date that loads the model file whenever there is one
predict_next_payment_date_reload(eng, customer_id, data_path, clock, file) ==
    LET loaded == IF eng.model = None \/ file # None THEN load_model(eng, file)
                  ELSE Return(eng, <<>>)
        e1 == Engine(loaded.model, loaded.feature_names)
        csv == read_csv(data_path)
    IN IF loaded.error # "" THEN loaded
       ELSE IF csv = None THEN Raise(e1, "FileNotFoundError")
       ELSE LET df == calculate_payment_delays(load_data(csv[1]))
                customer_df == CustomerRows(df, customer_id)
            IN IF Len(customer_df) < MIN_HISTORY_RECORDS
               THEN Raise(e1, "InsufficientHistoryError")
               ELSE LET features == engineer_features(df, customer_id, clock)
                    IN IF features = None THEN Raise(e1, "FeatureEngineeringError")
                       ELSE PredictFrom(e1, df, customer_id, features[1])

\* EMIPaymentPredictor.predict_next_payment_date
predict_next_payment_date(eng, customer_id, data_path, clock, file) ==
    LET loaded == IF eng.model = None THEN load_model(eng, file) ELSE Return(eng, <<>>)
        e1 == Engine(loaded.model, loaded.feature_names)
        csv == read_csv(data_path)
    IN IF loaded.error # "" THEN loaded
       ELSE IF csv = None THEN Raise(e1, "FileNotFoundError")
       ELSE LET df == calculate_payment_delays(load_data(csv[1]))
                customer_df == CustomerRows(df, customer_id)
            IN IF Len(customer_df) < MIN_HISTORY_RECORDS
               THEN Raise(e1, "InsufficientHistoryError")
               ELSE LET features == engineer_features(df, customer_id, clock)
                    IN IF features = None THEN Raise(e1, "FeatureEngineeringError")
                       ELSE PredictFrom(e1, df, customer_id, features[1])

\* predict_batch with the loop left at the first failing customer
RECURSIVE predict_batch_abort(_, _, _, _, _)
predict_batch_abort(eng, customer_ids, data_path, clock, file) ==
    IF customer_ids = <<>> THEN Return(eng, <<>>)
    ELSE LET r == predict_next_payment_date(eng, customer_ids[1], data_path, clock, file)
             rest == predict_batch_abort(Engine(r.model, r.feature_names),
                                         Tail(customer_ids), data_path, clock, file)
         IN IF r.error # "" THEN Return(Engine(r.model, r.feature_names), <<>>)
            ELSE [rest EXCEPT !.value = r.value \o rest.value]

\* EMIPaymentPredictor.predict_batch
RECURSIVE predict_batch(_, _, _, _, _)
predict_batch(eng, customer_ids, data_path, clock, file) ==
    IF customer_ids = <<>> THEN Return(eng, <<>>)
    ELSE LET r == predict_next_payment_date(eng, customer_ids[1], data_path, clock, file)
             rest == predict_batch(Engine(r.model, r.feature_names),
                                   Tail(customer_ids), data_path, clock, file)
         IN [rest EXCEPT !.value = (IF r.error = "" THEN r.value ELSE <<>>) \o rest.value]

\* train_model with the regressor of line 46 created before the table is
\* looked at
train_model_model_first(eng, data_path, clock, file, id, fit_ok, fit_out, persist_ok) ==
    LET csv == read_csv(data_path)
        Failed(e, err) == [error |-> err, value |-> <<>>, model |-> e.model,
                           feature_names |-> e.feature_names, artifact |-> file]
    IN IF csv = None THEN Failed(eng, "FileNotFoundError")
       ELSE LET df == calculate_payment_delays(load_data(csv[1]))
                X == prepare_training_data(df, clock)
                n_test == (Len(X) + 4) \div 5
            IN IF Len(X) = 0
               THEN Failed(Engine(Some([id |-> id, fitted |-> FALSE, out |-> 0]),
                                  eng.feature_names), "InsufficientDataError")
               ELSE IF Len(X) - n_test = 0 THEN Failed(eng, "ValueError")
               ELSE LET unfitted == [id |-> id, fitted |-> FALSE, out |-> 0]
                        fitted == [id |-> id, fitted |-> TRUE, out |-> fit_out]
                        names == [ver |-> id, names |-> FeatureColumns]
                    IN IF ~fit_ok
                       THEN Failed(Engine(Some(unfitted), eng.feature_names), "XGBoostError")
                       ELSE IF ~persist_ok
                       THEN Failed(Engine(Some(fitted), Some(names)), "OSError")
                       ELSE [error |-> "", value |-> <<Len(X)>>, model |-> Some(fitted),
                             feature_names |-> Some(names),
                             artifact |-> Some(joblib_dump([model |-> fitted,
                                                            feature_names |-> names]))]

\* EMIPaymentPredictor.train_model.  id names the regressor this call builds;
\* fit_ok and persist_ok say whether XGBRegressor.fit and os.makedirs /
\* joblib.dump go through, fit_out is what the fitted trees answer.  The
\* outcome also carries the artifact after the call.
train_model(eng, data_path, clock, file, id, fit_ok, fit_out, persist_ok) ==
    LET csv == read_csv(data_path)
        Failed(e, err) == [error |-> err, value |-> <<>>, model |-> e.model,
                           feature_names |-> e.feature_names, artifact |-> file]
    IN IF csv = None THEN Failed(eng, "FileNotFoundError")
       ELSE LET df == calculate_payment_delays(load_data(csv[1]))
                X == prepare_training_data(df, clock)
                n_test == (Len(X) + 4) \div 5
            IN IF Len(X) = 0 THEN Failed(eng, "InsufficientDataError")
               ELSE IF Len(X) - n_test = 0 THEN Failed(eng, "ValueError")
               ELSE LET unfitted == [id |-> id, fitted |-> FALSE, out |-> 0]
                        fitted == [id |-> id, fitted |-> TRUE, out |-> fit_out]
                        names == [ver |-> id, names |-> FeatureColumns]
                    IN IF ~fit_ok
                       THEN Failed(Engine(Some(unfitted), eng.feature_names), "XGBoostError")
                       ELSE IF ~persist_ok
                       THEN Failed(Engine(Some(fitted), Some(names)), "OSError")
                       ELSE [error |-> "", value |-> <<Len(X)>>, model |-> Some(fitted),
                             feature_names |-> Some(names),
                             artifact |-> Some(joblib_dump([model |-> fitted,
                                                            feature_names |-> names]))]

(***************************************************************************)
(* The engine as a state machine: one action per public operation          *)
(***************************************************************************)
MaxRecords == 4
MaxBatch == 2
MaxTrain == 1
MaxHistory == 3

\* the k-th monthly due date of a loan whose first instalment is due on
\* 2023-12-31, clamped to the month's length
DueDate(k) ==
    LET y == 2023 + ((10 + k) \div 12)
        m == ((10 + k) % 12) + 1
    IN ToOrdinal(y, m, Min(31, DaysInMonth(y, m)))

\* one row of the file: paid d days after the k-th due date; no scheduled
\* date in the row when d is NaN or the file has no such column
Row(has_scheduled, c, k, d) ==
    [customer_id |-> c,
     payment_date |-> DueDate(k) + (IF d = NaN THEN 0 ELSE d[1]),
     scheduled_date |-> IF has_scheduled /\ d # NaN THEN Some(DueDate(k)) ELSE NaT]

Columns(has_scheduled) ==
    {"customer_id", "payment_date"} \cup (IF has_scheduled THEN {"scheduled_date"} ELSE {})

CustomerId(i) == <<"CUST_0000", "CUST_0001", "CUST_0002", "CUST_0003", "CUST_0004",
                   "CUST_0005", "CUST_0006">>[i + 1]

CustomerIds == {CustomerId(i) : i \in 0..MaxRecords}

DelayPattern == <<Some(2), NaN, Some(0 - 3), Some(1)>>

\* a portfolio file: customer i has i records (CUST_0000 has none), written
\* customer after customer, so not in payment-date order
RECURSIVE PortfolioRows(_, _)
PortfolioRows(has_scheduled, i) ==
    IF i = 0 THEN <<>>
    ELSE PortfolioRows(has_scheduled, i - 1)
         \o [k \in 1..i |-> Row(has_scheduled, CustomerId(i), k, DelayPattern[((i + k) % 4) + 1])]

Portfolio(has_scheduled) ==
    [columns |-> Columns(has_scheduled), rows |-> PortfolioRows(has_scheduled, MaxRecords)]

\* the same file cut after the customers that are a record short of the
\* minimum
ShortPortfolio ==
    [columns |-> Columns(TRUE), rows |-> PortfolioRows(TRUE, MIN_HISTORY_RECORDS - 1)]

DataPaths == {DATA_PATH, MissingPath}

\* the ids a batch asks for: a customer without records, one a record short
\* of the minimum, one with just the minimum, the one with the longest history
BatchIds ==
    {CustomerId(0), CustomerId(MIN_HISTORY_RECORDS - 1), CustomerId(MIN_HISTORY_RECORDS),
     CustomerId(MaxRecords)}

BatchInputs == UNION {[1..n -> BatchIds] : n \in 0..MaxBatch}

\* datetime.now() at a call: one of two days
Clocks == {ToOrdinal(2024, 7, 1), ToOrdinal(2024, 7, 2)}

\* answers of a fitted regressor, in tenths of a day
RegOutputs == {0 - 12, 25}

\* the model file written by the k-th earlier run of the program
ModelFile(k) ==
    joblib_dump([model |-> [id |-> 0 - k, fitted |-> TRUE, out |-> 4],
                 feature_names |-> [ver |-> 0 - k, names |-> FeatureColumns]])

\* a model file left by an earlier run of the program
OldArtifact == ModelFile(0)

Called(op, ids, path, o) ==
    [op |-> op, customer_ids |-> ids, data_path |-> path, error |-> o.error, value |-> o.value]

NotCalled == Called("", <<>>, "", Return(Engine(None, None), <<>>))

\* the caller is between two calls
Ready == ret = NotCalled

Init ==
    /\ data \in {Portfolio(h) : h \in BOOLEAN} \cup {ShortPortfolio}
    /\ artifact \in {None, Some(OldArtifact)}
    /\ model = None
    /\ feature_names = None
    /\ trains = 0
    /\ ret = NotCalled
    /\ arg = None /\ out = None /\ pc = None /\ loc = None

TrainModel ==
    \E data_path \in DataPaths, fit_ok \in BOOLEAN, persist_ok \in BOOLEAN,
       fit_out \in RegOutputs, clock \in Clocks :
        LET o == train_model(Engine(model, feature_names), data_path, clock, artifact,
                             trains + 1, fit_ok, fit_out, persist_ok)
        IN /\ Ready
           /\ trains < MaxTrain
           /\ trains' = trains + 1
           /\ model' = o.model
           /\ feature_names' = o.feature_names
           /\ artifact' = o.artifact
           /\ ret' = Called("train_model", <<>>, data_path, o)
           /\ UNCHANGED <<data, arg, out, pc, loc>>

LoadModel ==
    LET o == load_model(Engine(model, feature_names), artifact)
    IN /\ Ready
       /\ model' = o.model
       /\ feature_names' = o.feature_names
       /\ ret' = Called("load_model", <<>>, "", o)
       /\ UNCHANGED <<data, artifact, trains, arg, out, pc, loc>>

Predict ==
    \E customer_id \in CustomerIds, data_path \in DataPaths, clock \in Clocks :
        LET o == predict_next_payment_date(Engine(model, feature_names), customer_id,
                                           data_path, clock, artifact)
        IN /\ Ready
           /\ model' = o.model
           /\ feature_names' = o.feature_names
           /\ ret' = Called("predict_next_payment_date", <<customer_id>>, data_path, o)
           /\ UNCHANGED <<data, artifact, trains, arg, out, pc, loc>>

PredictBatch ==
    \E customer_ids \in BatchInputs, data_path \in DataPaths, clock \in Clocks :
        LET o == predict_batch(Engine(model, feature_names), customer_ids,
                               data_path, clock, artifact)
        IN /\ Ready
           /\ model' = o.model
           /\ feature_names' = o.feature_names
           /\ ret' = Called("predict_batch", customer_ids, data_path, o)
           /\ UNCHANGED <<data, artifact, trains, arg, out, pc, loc>>

\* a caller of the feature engineer on the loaded table
EngineerFeatures ==
    \E customer_id \in CustomerIds, clock \in Clocks :
        LET df == calculate_payment_delays(load_data(data))
        IN /\ Ready
           /\ ret' = Called("engineer_features", <<customer_id>>, DATA_PATH,
                            Return(Engine(None, None), engineer_features(df, customer_id, clock)))
           /\ UNCHANGED <<data, artifact, model, feature_names, trains, arg, out, pc, loc>>

\* a caller of prepare_training_data on the loaded table
PrepareTrainingData ==
    \E clock \in Clocks :
        LET df == calculate_payment_delays(load_data(data))
        IN /\ Ready
           /\ ret' = Called("prepare_training_data", <<>>, DATA_PATH,
                            Return(Engine(None, None), prepare_training_data(df, clock)))
           /\ UNCHANGED <<data, artifact, model, feature_names, trains, arg, out, pc, loc>>

\* the caller takes the return (or the exception) of its call and goes on
Resume ==
    /\ ~Ready
    /\ ret' = NotCalled
    /\ UNCHANGED <<data, artifact, model, feature_names, trains, arg, out, pc, loc>>

Next ==
    \/ TrainModel \/ LoadModel \/ Predict \/ PredictBatch
    \/ EngineerFeatures \/ PrepareTrainingData \/ Resume

Spec == Init /\ [][Next]_vars

(***************************************************************************)
(* Single predictions over a family of histories                           *)
(***************************************************************************)
\* what a row can say about its delay
DelayChoices == {NaN, Some(0 - 3), Some(1), Some(2)}

\* the file: the rows of CUST_0001 with the delays ds, between them the three
\* rows of CUST_0003, paid on the due date
HistoryTable(has_scheduled, ds) ==
    [columns |-> Columns(has_scheduled),
     rows |-> [k \in 1..Len(ds) |-> Row(has_scheduled, CustomerId(1), k, ds[k])]
              \o [k \in 1..3 |-> Row(has_scheduled, CustomerId(3), k, Some(0))]]

Histories ==
    UNION {{HistoryTable(h, ds) : h \in BOOLEAN, ds \in [1..n -> DelayChoices]} :
           n \in 0..MaxHistory}

InitHistory ==
    /\ data \in Histories
    /\ artifact = Some(OldArtifact)
    /\ model = None
    /\ feature_names = None
    /\ trains = 0
    /\ ret = NotCalled
    /\ arg = None /\ out = None /\ pc = None /\ loc = None

NextHistory == LoadModel \/ Predict \/ EngineerFeatures \/ Resume

SpecHistory == InitHistory /\ [][NextHistory]_vars

(***************************************************************************)
(* The data processor over a family of files                               *)
(***************************************************************************)
MaxRows == 3

TableDates == {ToOrdinal(2024, 1, 31), ToOrdinal(2024, 2, 29), ToOrdinal(2024, 3, 5)}

\* a file with the given columns; the cells of a column the file does not
\* have are blank
Table(columns, rows) ==
    [columns |-> columns,
     rows |-> [i \in 1..Len(rows) |->
        [customer_id |-> IF "customer_id" \in columns THEN rows[i].customer_id ELSE "",
         payment_date |-> IF "payment_date" \in columns THEN rows[i].payment_date ELSE 0,
         scheduled_date |-> IF "scheduled_date" \in columns THEN rows[i].scheduled_date
                            ELSE NaT]]]

TableRows ==
    [customer_id : {CustomerId(1), CustomerId(2)},
     payment_date : TableDates,
     scheduled_date : {NaT, Some(ToOrdinal(2024, 1, 31))}]

Tables ==
    {Table(columns, rows) :
        columns \in {{"customer_id", "payment_date", "scheduled_date"},
                     {"customer_id", "payment_date"},
                     {"payment_date", "scheduled_date"},
                     {"customer_id", "scheduled_date"},
                     {"scheduled_date"}},
        rows \in UNION {[1..n -> TableRows] : n \in 0..MaxRows}}

InitTable ==
    /\ data \in Tables
    /\ artifact = None
    /\ model = None
    /\ feature_names = None
    /\ trains = 0
    /\ ret = NotCalled
    /\ arg = None /\ out = None /\ pc = None /\ loc = None

\* a caller of load_data on the file
LoadData ==
    /\ Ready
    /\ ret' = Called("load_data", <<>>, DATA_PATH,
                     IF load_data_error(data) # ""
                     THEN Raise(Engine(None, None), load_data_error(data))
                     ELSE Return(Engine(None, None), <<load_data(data)>>))
    /\ UNCHANGED <<data, artifact, model, feature_names, trains, arg, out, pc, loc>>

\* a caller of calculate_payment_delays on the loaded table
CalculatePaymentDelays ==
    /\ Ready
    /\ load_data_error(data) = ""
    /\ ret' = Called("calculate_payment_delays", <<>>, DATA_PATH,
                     Return(Engine(None, None), <<calculate_payment_delays(load_data(data))>>))
    /\ UNCHANGED <<data, artifact, model, feature_names, trains, arg, out, pc, loc>>

NextTable == LoadData \/ CalculatePaymentDelays \/ Resume

SpecTable == InitTable /\ [][NextTable]_vars

(***************************************************************************)
(* One engine shared by the worker threads of the server                   *)
(*                                                                         *)
(* Each worker serves one request, an engine call; a step is atomic up to  *)
(* and including one read or write of self.model, self.feature_names or    *)
(* the model file.  loc[w] holds the locals of worker w: the customer      *)
(* asked for, whether load_model runs inside a prediction, the unpickled   *)
(* model_data, the id of the regressor being trained.                      *)
(***************************************************************************)
NumWorkers == 2

Workers == 1..NumWorkers

NoLocals == [customer_id |-> "", lazy |-> FALSE, model_data |-> None, id |-> 0]

InitThreads ==
    /\ data = Portfolio(TRUE)
    /\ artifact \in {None, Some(OldArtifact)}
    /\ model = None
    /\ feature_names = None
    /\ trains = 0
    /\ ret = NotCalled
    /\ arg = None /\ out = None
    /\ pc = [w \in Workers |-> "idle"]
    /\ loc = [w \in Workers |-> NoLocals]

Goto(w, label) == pc' = [pc EXCEPT ![w] = label]

\* a request reaches worker w: predict_next_payment_date(customer_id, DATA_PATH)
StartPredict(w) ==
    \E customer_id \in {CustomerId(0), CustomerId(MaxRecords)} :
        /\ pc[w] = "idle"
        /\ Goto(w, "predict_122")
        /\ loc' = [loc EXCEPT ![w] = [NoLocals EXCEPT !.customer_id = customer_id]]
        /\ UNCHANGED <<data, artifact, model, feature_names, trains, ret, arg, out>>

\* line 122: if self.model is None: self.load_model()
PredictCheck(w) ==
    /\ pc[w] = "predict_122"
    /\ IF model = None
       THEN Goto(w, "load_112") /\ loc' = [loc EXCEPT ![w].lazy = TRUE]
       ELSE Goto(w, "predict_126") /\ UNCHANGED loc
    /\ UNCHANGED <<data, artifact, model, feature_names, trains, ret, arg, out>>

\* a request reaches worker w: load_model()
StartLoad(w) ==
    /\ pc[w] = "idle"
    /\ Goto(w, "load_112")
    /\ loc' = [loc EXCEPT ![w] = NoLocals]
    /\ UNCHANGED <<data, artifact, model, feature_names, trains, ret, arg, out>>

\* lines 112-115: FileNotFoundError, or model_data = joblib.load(path)
LoadRead(w) ==
    /\ pc[w] = "load_112"
    /\ IF artifact = None
       THEN Goto(w, "done") /\ loc' = [loc EXCEPT ![w] = NoLocals]
       ELSE Goto(w, "load_116")
            /\ loc' = [loc EXCEPT ![w].model_data = Some(joblib_load(artifact[1]))]
    /\ UNCHANGED <<data, artifact, model, feature_names, trains, ret, arg, out>>

\* line 116: self.model = model_data['model']
LoadSetModel(w) ==
    /\ pc[w] = "load_116"
    /\ model' = Some(loc[w].model_data[1].model)
    /\ Goto(w, "load_117")
    /\ UNCHANGED <<data, artifact, feature_names, trains, ret, arg, out, loc>>

\* line 117: self.feature_names = model_data['feature_names']
LoadSetNames(w) ==
    /\ pc[w] = "load_117"
    /\ feature_names' = Some(loc[w].model_data[1].feature_names)
    /\ IF loc[w].lazy
       THEN Goto(w, "predict_126") /\ loc' = [loc EXCEPT ![w].model_data = None]
       ELSE Goto(w, "done") /\ loc' = [loc EXCEPT ![w] = NoLocals]
    /\ UNCHANGED <<data, artifact, model, trains, ret, arg, out>>

\* lines 126-142: the table, the history check, the feature vector
PredictData(w) ==
    /\ pc[w] = "predict_126"
    /\ LET df == calculate_payment_delays(load_data(data))
       IN IF Len(CustomerRows(df, loc[w].customer_id)) < MIN_HISTORY_RECORDS
          THEN Goto(w, "done") /\ loc' = [loc EXCEPT ![w] = NoLocals]
          ELSE Goto(w, "predict_145") /\ UNCHANGED loc
    /\ UNCHANGED <<data, artifact, model, feature_names, trains, ret, arg, out>>

\* line 145: X.reindex(columns=self.feature_names, fill_value=0)
PredictReindex(w) ==
    /\ pc[w] = "predict_145"
    /\ Goto(w, "predict_193")
    /\ UNCHANGED <<data, artifact, model, feature_names, trains, ret, arg, out, loc>>

\* lines 147-227: the demand-date rule, or self.model.predict(X) at line 199
PredictFinish(w) ==
    /\ pc[w] = "predict_193"
    /\ Goto(w, "done")
    /\ loc' = [loc EXCEPT ![w] = NoLocals]
    /\ UNCHANGED <<data, artifact, model, feature_names, trains, ret, arg, out>>

\* a request reaches worker w: train_model(DATA_PATH)
StartTrain(w) ==
    /\ pc[w] = "idle"
    /\ trains < MaxTrain
    /\ trains' = trains + 1
    /\ Goto(w, "train_30")
    /\ loc' = [loc EXCEPT ![w] = [NoLocals EXCEPT !.id = trains + 1]]
    /\ UNCHANGED <<data, artifact, model, feature_names, ret, arg, out>>

\* lines 30-42: the training table and its split, or ValueError
TrainData(w) ==
    /\ pc[w] = "train_30"
    /\ \E clock \in Clocks :
        LET X == prepare_training_data(calculate_payment_delays(load_data(data)), clock)
        IN IF Len(X) = 0 \/ Len(X) - ((Len(X) + 4) \div 5) = 0
           THEN Goto(w, "done") /\ loc' = [loc EXCEPT ![w] = NoLocals]
           ELSE Goto(w, "train_46") /\ UNCHANGED loc
    /\ UNCHANGED <<data, artifact, model, feature_names, trains, ret, arg, out>>

\* line 46: self.model = xgb.XGBRegressor(...)
TrainNew(w) ==
    /\ pc[w] = "train_46"
    /\ model' = Some([id |-> loc[w].id, fitted |-> FALSE, out |-> 0])
    /\ Goto(w, "train_53")
    /\ UNCHANGED <<data, artifact, feature_names, trains, ret, arg, out, loc>>

\* line 53: self.model.fit(X_train, y_train), on the regressor self.model
\* refers to at this moment
TrainFit(w) ==
    /\ pc[w] = "train_53"
    /\ \E fit_ok \in BOOLEAN, fit_out \in RegOutputs :
        IF fit_ok
        THEN /\ model' = Some([model[1] EXCEPT !.fitted = TRUE, !.out = fit_out])
             /\ Goto(w, "train_54") /\ UNCHANGED loc
        ELSE /\ UNCHANGED model
             /\ Goto(w, "done") /\ loc' = [loc EXCEPT ![w] = NoLocals]
    /\ UNCHANGED <<data, artifact, feature_names, trains, ret, arg, out>>

\* line 54: self.feature_names = X.columns.tolist()
TrainSetNames(w) ==
    /\ pc[w] = "train_54"
    /\ feature_names' = Some([ver |-> loc[w].id, names |-> FeatureColumns])
    /\ Goto(w, "train_79")
    /\ UNCHANGED <<data, artifact, model, trains, ret, arg, out, loc>>

\* lines 79-83: joblib.dump of self.model and self.feature_names, or OSError
TrainDump(w) ==
    /\ pc[w] = "train_79"
    /\ \E persist_ok \in BOOLEAN :
        IF persist_ok
        THEN artifact' = Some(joblib_dump([model |-> model[1],
                                           feature_names |-> feature_names[1]]))
        ELSE UNCHANGED artifact
    /\ Goto(w, "done")
    /\ loc' = [loc EXCEPT ![w] = NoLocals]
    /\ UNCHANGED <<data, model, feature_names, trains, ret, arg, out>>

NextThreads ==
    \E w \in Workers :
        \/ StartPredict(w) \/ PredictCheck(w) \/ PredictData(w)
        \/ PredictReindex(w) \/ PredictFinish(w)
        \/ StartLoad(w) \/ LoadRead(w) \/ LoadSetModel(w) \/ LoadSetNames(w)
        \/ StartTrain(w) \/ TrainData(w) \/ TrainNew(w) \/ TrainFit(w)
        \/ TrainSetNames(w) \/ TrainDump(w)

SpecThreads == InitThreads /\ [][NextThreads]_vars

(***************************************************************************)
(* C3: wherever a prediction reads the engine (lines 122, 145 and 199),    *)
(* the model and the feature-name list are both absent, or both those of   *)
(* one completed train or load.                                            *)
(***************************************************************************)
Consistent ==
    \/ model = None /\ feature_names = None
    \/ /\ model # None /\ feature_names # None
       /\ model[1].fitted
       /\ model[1].id = feature_names[1].ver

C3_NoPartialEngine ==
    \A w \in Workers :
        pc[w] \in {"predict_122", "predict_145", "predict_193"} => Consistent

(***************************************************************************)
(* C22: when the load_model a prediction makes on an engine without a      *)
(* model has returned and no train_model is running any more, the engine   *)
(* holds the model and the feature names of the file the training wrote.   *)
(***************************************************************************)
\* a train_model has written the model file and none is at work
TrainingCompleted ==
    /\ artifact # None /\ joblib_load(artifact[1]).model.id >= 1
    /\ \A w \in Workers :
           pc[w] \notin {"train_30", "train_46", "train_53", "train_54", "train_79"}

C22_NoStaleModel ==
    \A w \in Workers :
        (pc[w] = "predict_126" /\ loc[w].lazy /\ TrainingCompleted) =>
            /\ model = Some(joblib_load(artifact[1]).model)
            /\ feature_names = Some(joblib_load(artifact[1]).feature_names)

(***************************************************************************)
(* Properties of the engine                                                *)
(***************************************************************************)
\* the customer's rows as they stand in the file
FileRows(customer_id) == SelectSeq(data.rows, LAMBDA r : r.customer_id = customer_id)

PredictCalled == ret.op = "predict_next_payment_date"
PredictReturned == PredictCalled /\ ret.error = ""

\* the single-customer prediction of an id goes through on this engine
Succeeds(customer_id) ==
    \E clock \in Clocks :
        predict_next_payment_date(Engine(model, feature_names), customer_id,
                                  ret.data_path, clock, artifact).error = ""

(***************************************************************************)
(* C1: predict_batch never raises; it returns one result for each id whose *)
(* single prediction goes through, in the order of the input, and nothing  *)
(* for the other ids.                                                      *)
(***************************************************************************)
C1_BatchIsolation ==
    ret.op = "predict_batch" =>
        LET expected == SelectSeq(ret.customer_ids, Succeeds)
        IN /\ ret.error = ""
           /\ Len(ret.value) = Len(expected)
           /\ \A i \in 1..Len(expected) :
                  /\ ret.value[i].customer_id = expected[i]
                  /\ \E clock \in Clocks :
                         <<ret.value[i]>> =
                             predict_next_payment_date(Engine(model, feature_names), expected[i],
                                                       ret.data_path, clock, artifact).value

\* two ids, the first one fails, the second one is predicted
C1_Witness ==
    /\ ret.op = "predict_batch"
    /\ Len(ret.customer_ids) = 2
    /\ ~Succeeds(ret.customer_ids[1])
    /\ Len(ret.value) = 1
    /\ ret.value[1].customer_id = ret.customer_ids[2]

(***************************************************************************)
(* C2, as claimed: a prediction for a customer with fewer than             *)
(* MIN_HISTORY_RECORDS records in the data source fails with the           *)
(* insufficient-history error.                                             *)
(***************************************************************************)
ShortHistory ==
    /\ PredictCalled
    /\ ret.data_path = DATA_PATH
    /\ Len(FileRows(ret.customer_ids[1])) < 3

C2_Original == ShortHistory => ret.error = "InsufficientHistoryError"

(***************************************************************************)
(* C2, amended: such a prediction returns no result; it fails with the     *)
(* insufficient-history error when the engine holds a model or the lazy    *)
(* load finds the artifact, and with the model-not-found error otherwise.  *)
(***************************************************************************)
C2_ShortHistoryFails ==
    ShortHistory =>
        /\ ret.value = <<>>
        /\ ret.error = (IF model # None THEN "InsufficientHistoryError" ELSE "ModelNotFoundError")

C2_Witness ==
    /\ ShortHistory
    /\ Len(FileRows(ret.customer_ids[1])) = 2
    /\ ret.error = "InsufficientHistoryError"

(***************************************************************************)
(* C4: a train_model call that fails on an engine holding a loaded,        *)
(* working model leaves that model and its feature-name list in place.     *)
(***************************************************************************)
C4_FailedTrainKeepsModel ==
    [][(/\ Ready
        /\ ret'.op = "train_model" /\ ret'.error # ""
        /\ model # None /\ model[1].fitted /\ feature_names # None)
       => (model' = model /\ feature_names' = feature_names)]_vars

(***************************************************************************)
(* C6: when the customer's most recent record has a demand date, the       *)
(* predicted payment date is the next demand date plus the mean delay of   *)
(* the customer's records, rounded to the nearest integer.                 *)
(***************************************************************************)
\* the record with the latest payment date
LatestRow(rows) ==
    CHOOSE r \in {rows[i] : i \in 1..Len(rows)} :
        \A i \in 1..Len(rows) : rows[i].payment_date <= r.payment_date

\* payment date minus scheduled date, for the records that have both
RECURSIVE FileDelays(_)
FileDelays(rows) ==
    IF rows = <<>> THEN <<>>
    ELSE (IF rows[1].scheduled_date = NaT THEN <<>>
          ELSE <<rows[1].payment_date - rows[1].scheduled_date[1]>>)
         \o FileDelays(Tail(rows))

HasDemandDate ==
    /\ PredictReturned
    /\ "scheduled_date" \in data.columns
    /\ LatestRow(FileRows(ret.customer_ids[1])).scheduled_date # NaT

C6_PrimaryPath ==
    HasDemandDate =>
        LET res == ret.value[1]
            rows == FileRows(ret.customer_ids[1])
            delays == FileDelays(rows)
            last == FromOrdinal(LatestRow(rows).scheduled_date[1])
            next == NextDemandDate(last)
            shift == ToOrdinal(res.predicted_payment_date.year, res.predicted_payment_date.month,
                               res.predicted_payment_date.day)
                     - ToOrdinal(next.year, next.month, next.day)
        IN /\ res.last_demand_date = Some(last)
           /\ res.next_demand_date = Some(next)
           /\ 2 * Abs(shift * Len(delays) - SumSeq(delays)) <= Len(delays)

\* a mean that is not a whole number of days, over a history with a gap
C6_Witness ==
    /\ HasDemandDate
    /\ LET delays == FileDelays(FileRows(ret.customer_ids[1]))
       IN SumSeq(delays) % Len(delays) # 0

(***************************************************************************)
(* C7: on the primary path the predicted date, the next demand date and    *)
(* the days until payment are the same whatever the time of the call and   *)
(* whatever model the engine holds.                                        *)
(***************************************************************************)
OtherModels ==
    {joblib_load(OldArtifact).model, [id |-> 1, fitted |-> TRUE, out |-> 25],
     [id |-> 2, fitted |-> FALSE, out |-> 0]}

C7_PrimaryDeterminism ==
    (PredictReturned /\ ret.value[1].next_demand_date # None) =>
        \A clock \in Clocks, m \in OtherModels :
            LET o == predict_next_payment_date(Engine(Some(m), feature_names),
                                               ret.customer_ids[1], ret.data_path, clock, artifact)
            IN /\ o.error = ""
               /\ o.value[1].predicted_payment_date = ret.value[1].predicted_payment_date
               /\ o.value[1].next_demand_date = ret.value[1].next_demand_date
               /\ o.value[1].days_until_payment = ret.value[1].days_until_payment

\* a primary-path prediction made with a model this process trained
C7_Witness ==
    /\ PredictReturned
    /\ ret.value[1].next_demand_date # None
    /\ model # None /\ model[1].id > 0 /\ model # Some(joblib_load(OldArtifact).model)

(***************************************************************************)
(* C10: engineer_features returns no vector, and does not raise, for a     *)
(* customer with fewer than 2 records, and a vector only from 2 records on.*)
(***************************************************************************)
C10_FeatureGuard ==
    ret.op = "engineer_features" =>
        /\ ret.error = ""
        /\ (ret.value = None) <=> (Len(FileRows(ret.customer_ids[1])) < 2)

C10_Witness ==
    /\ ret.op = "engineer_features"
    /\ ret.value = None
    /\ Len(FileRows(ret.customer_ids[1])) = 1

(***************************************************************************)
(* C12: after a train_model that went through, load_model of the file it   *)
(* wrote, on the same engine or on a fresh one, gives the feature-name     *)
(* list of the fit, in the same order, and the reloaded engine answers     *)
(* every prediction as the trained engine does.                            *)
(***************************************************************************)
TrainReturned == ret.op = "train_model" /\ ret.error = ""

C12_RoundTrip ==
    TrainReturned =>
        \A eng \in {Engine(model, feature_names), Engine(None, None)} :
            LET reloaded == load_model(eng, artifact)
            IN /\ reloaded.error = ""
               /\ reloaded.feature_names = feature_names
               /\ reloaded.feature_names[1].names = FeatureColumns
               /\ \A customer_id \in CustomerIds, clock \in Clocks :
                      LET a == predict_next_payment_date(
                                   Engine(reloaded.model, reloaded.feature_names),
                                   customer_id, DATA_PATH, clock, artifact)
                          b == predict_next_payment_date(
                                   Engine(model, feature_names),
                                   customer_id, DATA_PATH, clock, artifact)
                      IN a.error = b.error /\ a.value = b.value

\* a model trained over an older model file; the reloaded engine answers on
\* the fallback path, with the regressor
C12_Witness ==
    /\ TrainReturned
    /\ model # None /\ model[1].id = 1
    /\ "scheduled_date" \notin data.columns
    /\ \E clock \in Clocks :
           LET reloaded == load_model(Engine(None, None), artifact)
           IN predict_next_payment_date(Engine(reloaded.model, reloaded.feature_names),
                                        CustomerId(MaxRecords), DATA_PATH, clock,
                                        artifact).error = ""

(***************************************************************************)
(* C13: for each window W of 7, 14, 30, 60 and 90 days, payment_count_Wd   *)
(* is the number of the customer's records paid within the W days up to    *)
(* the customer's own latest payment and delay_mean_Wd is the mean delay   *)
(* of those records, whatever the time of the call; a window without       *)
(* records reports 0 for both.                                             *)
(***************************************************************************)
FeaturesReturned == ret.op = "engineer_features" /\ ret.value # None

\* the customer's records with their delays
DelayRows(customer_id) ==
    CustomerRows(calculate_payment_delays(load_data(data)), customer_id)

\* the records of the customer paid from `days` days before the latest on
InWindow(customer_id, days) ==
    LET rows == DelayRows(customer_id)
        latest == CHOOSE r \in {rows[i] : i \in 1..Len(rows)} :
                      \A i \in 1..Len(rows) : rows[i].payment_date <= r.payment_date
    IN SelectSeq(rows, LAMBDA r : latest.payment_date - r.payment_date <= days)

C13_WindowFeatures ==
    FeaturesReturned =>
        \A w \in 1..5 :
            LET days == <<7, 14, 30, 60, 90>>[w]
                inside == InWindow(ret.customer_ids[1], days)
                delays == DefinedDelays(inside)
                count == ret.value[1].payment_count[w]
                mean == ret.value[1].delay_mean[w]
            IN /\ count = Len(inside)
               /\ (count = 0 => mean = Some([num |-> 0, den |-> 1]))
               /\ (count > 0 /\ delays # <<>>) =>
                      (mean # NaN /\ mean[1].num * Len(delays) = SumSeq(delays) * mean[1].den)
               /\ (count > 0 /\ delays = <<>>) => mean = NaN
               /\ \A clock \in Clocks :
                      LET f == engineer_features(calculate_payment_delays(load_data(data)),
                                                 ret.customer_ids[1], clock)[1]
                      IN f.payment_count[w] = count /\ f.delay_mean[w] = mean

\* a record paid exactly 30 days before the latest one: it is in the window
\* of 30 days and not in the one of 14
C13_Witness ==
    /\ FeaturesReturned
    /\ LET rows == DelayRows(ret.customer_ids[1])
       IN \E i \in 1..Len(rows) : Last(rows).payment_date - rows[i].payment_date = 30
    /\ ret.value[1].payment_count[2] = 1
    /\ ret.value[1].payment_count[3] = 2

(***************************************************************************)
(* C14: calculate_payment_delays leaves no record without a delay: with a  *)
(* scheduled_date column the delay is payment date minus scheduled date;   *)
(* without one it is the number of days since the previous payment of the  *)
(* same customer, 0 for the first record of each customer.                 *)
(***************************************************************************)
C14_Delays ==
    ret.op = "calculate_payment_delays" =>
        LET rows == ret.value[1].rows
        IN \A i \in 1..Len(rows) :
               /\ rows[i].delay_days # NaN
               /\ IF "scheduled_date" \in data.columns
                  THEN /\ rows[i].scheduled_date # NaT
                       /\ rows[i].delay_days = Some(rows[i].payment_date - rows[i].scheduled_date[1])
                  ELSE LET earlier == {j \in 1..(i - 1) : rows[j].customer_id = rows[i].customer_id}
                       IN IF earlier = {} THEN rows[i].delay_days = Some(0)
                          ELSE LET prev == CHOOSE j \in earlier : \A k \in earlier : k <= j
                               IN rows[i].delay_days =
                                      Some(rows[i].payment_date - rows[prev].payment_date)

(***************************************************************************)
(* C15: load_data raises when the file lacks the column customer_id or     *)
(* the column payment_date; otherwise it returns every row of the file,    *)
(* in ascending order of payment date.                                     *)
(***************************************************************************)
C15_LoadData ==
    ret.op = "load_data" =>
        IF ~({"customer_id", "payment_date"} \subseteq data.columns)
        THEN ret.error # "" /\ ret.value = <<>>
        ELSE /\ ret.error = ""
             /\ LET rows == ret.value[1].rows
                IN /\ Len(rows) = Len(data.rows)
                   /\ \A i \in 1..Len(rows) :
                          Cardinality({j \in 1..Len(rows) : rows[j] = rows[i]})
                              = Cardinality({j \in 1..Len(rows) : data.rows[j] = rows[i]})
                   /\ \A i \in 1..(Len(rows) - 1) :
                          rows[i].payment_date <= rows[i + 1].payment_date

(***************************************************************************)
(* C16: the engine starts without a model and without feature names; it    *)
(* comes to hold a fitted model with its names only through a train_model  *)
(* or a load_model that goes through (the load inside a prediction         *)
(* included), and once it does, no call takes that away.                   *)
(***************************************************************************)
Unloaded == model = None /\ feature_names = None

Loaded == model # None /\ model[1].fitted /\ feature_names # None

C16_StateMachine ==
    /\ Unloaded
    /\ [][Loaded => Loaded']_vars
    /\ [][(~Loaded /\ Loaded') =>
              \/ ret'.op \in {"train_model", "load_model"} /\ ret'.error = ""
              \/ ret'.op \in {"predict_next_payment_date", "predict_batch"}]_vars

(***************************************************************************)
(* C17: a prediction, single or batch, on an engine that holds a model     *)
(* leaves the model and the feature names as they are, whether it returns  *)
(* or raises; on an engine without a model it changes them only by         *)
(* loading the model file.                                                 *)
(***************************************************************************)
C17_PredictKeepsEngine ==
    [][ret'.op \in {"predict_next_payment_date", "predict_batch"} =>
          IF model # None
          THEN model' = model /\ feature_names' = feature_names
          ELSE \/ model' = model /\ feature_names' = feature_names
               \/ /\ artifact # None
                  /\ model' = Some(joblib_load(artifact[1]).model)
                  /\ feature_names' = Some(joblib_load(artifact[1]).feature_names)]_vars

\* a prediction returned by an engine whose model is newer than the model
\* file: the file was not read
C17_Witness ==
    /\ PredictReturned
    /\ artifact # None
    /\ model # None /\ model # Some(joblib_load(artifact[1]).model)

(***************************************************************************)
(* C18: prepare_training_data makes examples only from customers with at   *)
(* least 3 records; for each of them, one feature vector per prefix of the *)
(* history, the prefixes growing from 3 records on; it returns nothing     *)
(* exactly when no customer has 3 records.                                 *)
(***************************************************************************)
TrainingTableReturned == ret.op = "prepare_training_data"

ExamplesFor(customer_id) == SelectSeq(ret.value, LAMBDA e : e.customer_id = customer_id)

Qualifying == {c \in CustomerIds : Len(FileRows(c)) >= 3}

C18_TrainingPrefixes ==
    TrainingTableReturned =>
        /\ ret.error = ""
        /\ (ret.value = <<>>) <=> (Qualifying = {})
        /\ \A i \in 1..Len(ret.value) : ret.value[i].customer_id \in Qualifying
        /\ \A c \in Qualifying :
               LET mine == ExamplesFor(c)
               IN /\ Len(mine) >= 1
                  /\ mine[1].features.total_payments = 3
                  /\ \A k \in 1..(Len(mine) - 1) :
                         mine[k + 1].features.total_payments > mine[k].features.total_payments

(***************************************************************************)
(* C19: the target of a training example is the number of days from the   *)
(* last payment of its feature prefix to the customer's next payment; the  *)
(* example that comes from the customer's last record has the gap between  *)
(* that record and the one before it.                                      *)
(***************************************************************************)
C19_Targets ==
    TrainingTableReturned =>
        \A c \in Qualifying :
            LET mine == ExamplesFor(c)
                rows == DelayRows(c)
            IN \A k \in 1..Len(mine) :
                   LET prefix == mine[k].features.total_payments
                   IN IF k = Len(mine)
                      THEN mine[k].target
                               = rows[Len(rows)].payment_date - rows[Len(rows) - 1].payment_date
                      ELSE /\ mine[k].features.last_payment_date = rows[prefix].payment_date
                           /\ mine[k].target
                                  = rows[prefix + 1].payment_date - rows[prefix].payment_date

(***************************************************************************)
(* C20: when no customer of the file has 3 records, train_model raises the *)
(* insufficient-data error and leaves the model, the feature names and the *)
(* model file as they were.                                                *)
(***************************************************************************)
C20_EmptyTrainingTable ==
    [][(ret'.op = "train_model" /\ ret'.data_path = DATA_PATH /\ Qualifying = {}) =>
          /\ ret'.error = "InsufficientDataError"
          /\ model' = model /\ feature_names' = feature_names
          /\ artifact' = artifact]_vars

\* the engine had loaded a model file before the call
C20_Witness ==
    /\ ret.op = "train_model" /\ ret.error = "InsufficientDataError"
    /\ Qualifying = {}
    /\ model = Some(joblib_load(OldArtifact).model)
    /\ artifact = Some(OldArtifact)

(***************************************************************************)
(* C24: in every feature vector the window counts grow with the window     *)
(* and lie between 1 and total_payments: every window holds the record of  *)
(* the customer's latest payment, so none is empty.                        *)
(***************************************************************************)
C24_WindowCounts ==
    FeaturesReturned =>
        LET f == ret.value[1]
        IN /\ 1 <= f.payment_count[1]
           /\ \A w \in 1..4 : f.payment_count[w] <= f.payment_count[w + 1]
           /\ f.payment_count[5] <= f.total_payments
           /\ f.total_payments = Len(FileRows(ret.customer_ids[1]))
           /\ f.last_payment_date = LatestRow(FileRows(ret.customer_ids[1])).payment_date
           /\ \A w \in 1..5 : f.payment_count[w] >= 1

\* three payments over two months: one in the last week, all within 90 days
C24_Witness ==
    /\ FeaturesReturned
    /\ ret.value[1].payment_count[1] = 1
    /\ ret.value[1].payment_count[3] = 2
    /\ ret.value[1].payment_count[5] = 3
    /\ ret.value[1].total_payments = 3

(***************************************************************************)
(* Pure-function specifications                                            *)
(***************************************************************************)
Idle ==
    /\ data = None /\ artifact = None /\ model = None /\ feature_names = None
    /\ trains = 0 /\ ret = None /\ pc = None /\ loc = None

\* years around the century rules, and the years of the model's range
DemandYears == {1899, 1900, 1999, 2000} \cup (2023..MaxYear)

DemandDates ==
    {Date(y, m, d) : y \in DemandYears, m \in 1..12, d \in 1..31}

InitDemand ==
    /\ Idle
    /\ arg \in {dt \in DemandDates : TimestampValid(dt.year, dt.month, dt.day)}
    /\ out = None

ProjectDemand ==
    /\ out = None
    /\ out' = Some(NextDemandDate(arg))
    /\ UNCHANGED <<data, artifact, model, feature_names, trains, ret, arg, pc, loc>>

SpecDemand == InitDemand /\ [][ProjectDemand]_vars

StdValues ==
    {NaN} \cup {Some([sq_num |-> n, sq_den |-> d]) : n \in (0..MaxVarNum) \cup {1000000}, d \in {1, 2}}

InitConfidence ==
    /\ Idle
    /\ arg \in [total_payments : 0..MaxPayments, std_delay : StdValues]
    /\ out = None

ScoreConfidence ==
    /\ out = None
    /\ out' = Some(calculate_confidence(arg))
    /\ UNCHANGED <<data, artifact, model, feature_names, trains, ret, arg, pc, loc>>

SpecConfidence == InitConfidence /\ [][ScoreConfidence]_vars

(***************************************************************************)
(* C5: the projected next demand date is in the calendar month right after *)
(* the last demand date (December rolls over to January of the next year)  *)
(* and its day is min(d, days of that month), leap years included.         *)
(***************************************************************************)
C5_NextDemandDate ==
    out # None =>
        LET next == out[1]
        IN /\ next.month = (arg.month % 12) + 1
           /\ next.year = arg.year + (IF arg.month = 12 THEN 1 ELSE 0)
           /\ next.day = Min(arg.day, DaysInMonth(next.year, next.month))
           /\ TimestampValid(next.year, next.month, next.day)
           /\ (arg = Date(2024, 1, 31) => next = Date(2024, 2, 29))
           /\ (arg = Date(2023, 2, 28) => next = Date(2023, 3, 28))

C5_Witness == arg = Date(2024, 1, 31) /\ out = Some(Date(2024, 2, 29))

(***************************************************************************)
(* C8: the confidence score of any feature vector is within [0.50, 0.95].  *)
(***************************************************************************)
C8_ConfidenceRange == out # None => (50 <= out[1] /\ out[1] <= 95)

C8_Witness ==
    /\ out # None /\ arg.total_payments = 0
    /\ arg.std_delay = Some([sq_num |-> 1000000, sq_den |-> 1])

(***************************************************************************)
(* C9: the score is clamp(0.70 + a + b, 0.50, 0.95), a = 0.10 above 10     *)
(* payments, 0.05 above 5, b = -0.10 for a deviation above 10, +0.10 for   *)
(* one below 3; all four thresholds are strict.                            *)
(***************************************************************************)
C9_A == IF arg.total_payments > 10 THEN 10 ELSE IF arg.total_payments > 5 THEN 5 ELSE 0

C9_B ==
    IF arg.std_delay = NaN THEN 0
    ELSE IF arg.std_delay[1].sq_num > 100 * arg.std_delay[1].sq_den THEN 0 - 10
    ELSE IF arg.std_delay[1].sq_num < 9 * arg.std_delay[1].sq_den THEN 10 ELSE 0

C9_ConfidenceFormula ==
    out # None =>
        LET s == 70 + C9_A + C9_B
        IN out = Some(IF s < 50 THEN 50 ELSE IF s > 95 THEN 95 ELSE s)

C9_Witness ==
    /\ out = Some(70) /\ arg.total_payments = 5
    /\ arg.std_delay = Some([sq_num |-> 9, sq_den |-> 1])

(***************************************************************************)
(* load_model(model_path) over a family of file systems                    *)
(***************************************************************************)
\* the directories a model file may lie in: the script directory, its
\* parent, a subdirectory (the server is started in backend/), one elsewhere
ModelDirs == <<script_dir, dirname(script_dir), script_dir \o <<"backend">>, <<"/", "tmp">>>>

ModelNames == <<MODEL_PATH, <<"m.pkl">>>>

\* every file is a different model file
ModelFiles ==
    [i \in 1..(Len(ModelDirs) * Len(ModelNames)) |->
        ModelDirs[((i - 1) \div Len(ModelNames)) + 1] \o ModelNames[((i - 1) % Len(ModelNames)) + 1]]

ReadFile(path) == ModelFile(CHOOSE i \in 1..Len(ModelFiles) : ModelFiles[i] = path)

\* load_model(): None, '' (which "or" takes as no path), a relative path,
\* an absolute one
ModelPaths == {None, Some(<<>>), Some(<<"m.pkl">>), Some(dirname(script_dir) \o <<"m.pkl">>)}

\* EMIPaymentPredictor.load_model(model_path), the process running in cwd
load_model_at(eng, model_path, cwd, fs) ==
    LET path == path_to_use(model_path, cwd, fs)
    IN load_model(eng, IF exists(fs, cwd, path) THEN Some(ReadFile(abspath(cwd, path)))
                       ELSE None)

InitResolve ==
    /\ data = None /\ artifact = None /\ trains = 0 /\ ret = None /\ pc = None /\ loc = None
    /\ model = None /\ feature_names = None
    /\ arg \in [model_path : ModelPaths,
                cwd : {ModelDirs[i] : i \in 1..Len(ModelDirs)},
                fs : SUBSET {ModelFiles[i] : i \in 1..Len(ModelFiles)}]
    /\ out = None

LoadModelAt ==
    /\ out = None
    /\ LET o == load_model_at(Engine(model, feature_names), arg.model_path, arg.cwd, arg.fs)
       IN /\ model' = o.model
          /\ feature_names' = o.feature_names
          /\ out' = Some(o.error)
    /\ UNCHANGED <<data, artifact, trains, ret, arg, pc, loc>>

SpecResolve == InitResolve /\ [][LoadModelAt]_vars

(***************************************************************************)
(* C11: load_model takes the first existing one of the given path as it    *)
(* is, as an absolute path, under the working directory, under the         *)
(* installation root and under the root's parent; it raises the            *)
(* model-not-found error exactly when none of them exists.                 *)
(***************************************************************************)
C11_Candidates ==
    LET given == IF arg.model_path \in {None, Some(<<>>)} THEN MODEL_PATH ELSE arg.model_path[1]
        Under(dir) == IF given[1] = "/" THEN given ELSE dir \o given
    IN <<Under(arg.cwd), Under(arg.cwd), Under(arg.cwd),
         Under(<<"/", "app", "src">>), Under(<<"/", "app">>)>>

C11_PathResolution ==
    out # None =>
        LET found == {i \in 1..5 : C11_Candidates[i] \in arg.fs}
        IN IF found = {}
           THEN out = Some("ModelNotFoundError") /\ model = None /\ feature_names = None
           ELSE LET first == CHOOSE i \in found : \A j \in found : i <= j
                    file == joblib_load(ReadFile(C11_Candidates[first]))
                IN /\ out = Some("")
                   /\ model = Some(file.model)
                   /\ feature_names = Some(file.feature_names)

\* nothing under the working directory, a file under the root and one under
\* its parent: the one under the root is loaded
C11_Witness ==
    /\ out = Some("")
    /\ arg.model_path = None
    /\ arg.cwd = <<"/", "tmp">>
    /\ {<<"/", "app", "src">> \o MODEL_PATH, <<"/", "app">> \o MODEL_PATH} \subseteq arg.fs
    /\ model = Some(joblib_load(ReadFile(<<"/", "app", "src">> \o MODEL_PATH)).model)

(***************************************************************************)
(* C21: when the customer's most recent record has no demand date, the     *)
(* predicted payment date is the last payment date plus the answer of the  *)
(* regressor, rounded to the nearest day and floored at 0: the predicted   *)
(* date is not before the last payment and days_until_payment is not       *)
(* negative.                                                               *)
(***************************************************************************)
FallbackReturned ==
    /\ PredictReturned
    /\ \/ "scheduled_date" \notin data.columns
       \/ LatestRow(FileRows(ret.customer_ids[1])).scheduled_date = NaT

C21_FallbackPath ==
    FallbackReturned =>
        LET res == ret.value[1]
            last == LatestRow(FileRows(ret.customer_ids[1])).payment_date
            predicted == ToOrdinal(res.predicted_payment_date.year,
                                   res.predicted_payment_date.month,
                                   res.predicted_payment_date.day)
            tenths == model[1].out
        IN /\ model[1].fitted
           /\ res.next_demand_date = None
           /\ res.last_payment_date = FromOrdinal(last)
           /\ predicted >= last
           /\ res.days_until_payment = predicted - last
           /\ res.days_until_payment >= 0
           /\ \E days \in (0 - 3)..3 :
                  /\ 2 * Abs(10 * days - tenths) <= 10
                  /\ predicted - last = (IF days < 0 THEN 0 ELSE days)

\* a regressor trained by this process answers a negative number of days
C21_Witness ==
    /\ FallbackReturned
    /\ model[1].out < 0
    /\ ret.value[1].days_until_payment = 0

(***************************************************************************)
(* C23: the clamp of the confidence score never cuts: the score is 0.70    *)
(* plus the two adjustments, one of 0.60, 0.65, 0.70, 0.75, 0.80, 0.85     *)
(* and 0.90, and never 0.50 or 0.95.                                       *)
(***************************************************************************)
C23_ClampIdle ==
    out # None =>
        LET a == IF arg.total_payments > 10 THEN 10 ELSE IF arg.total_payments > 5 THEN 5 ELSE 0
            b == IF StdGT(arg.std_delay, 10) THEN 0 - 10
                 ELSE IF StdLT(arg.std_delay, 3) THEN 10 ELSE 0
        IN /\ out[1] = 70 + a + b
           /\ out[1] \in {60, 65, 70, 75, 80, 85, 90}
           /\ 60 <= out[1] /\ out[1] <= 90

\* the highest score: more than 10 payments, steady delays
C23_Witness == out = Some(90) /\ arg.total_payments = 11 /\ StdLT(arg.std_delay, 3)

=============================================================================
